---- MODULE Spec2Model ----
(***************************************************************************)
(* A model of src/project.py: the Station records, SubwaySystem's          *)
(* load_from_csv and find_route with its nested get_path_signature and     *)
(* dfs.  Station objects live in `heap` (one object per csv row, in row    *)
(* order) and are referred to by their index; 0 is Python's None.          *)
(***************************************************************************)
EXTENDS Integers, Sequences, FiniteSets, TLC

VARIABLES
    csv,              \* the data rows of the csv file (header already skipped)
    pc,               \* "file", "loaded", "searching", "returned", "raised"
    heap,             \* the Station objects, indexed by creation order
    stations,         \* self.stations: id -> Station object
    lines,            \* self.lines: line name -> list of Station objects
    query,            \* the arguments of the running / last find_route call
    start,            \* find_route's local `start` (0 is None)
    target,           \* find_route's local `end`, dfs's `target` (0 is None)
    visited,          \* find_route's local set of ids
    current_path,     \* find_route's local list of (Station, bool)
    all_paths,        \* find_route's local list of paths
    path_signatures,  \* find_route's local set of strings
    stack,            \* the active dfs calls, innermost last
    result,           \* the value find_route returned to its caller
    suspended         \* the locals of a second find_route call on the same
                      \* SubwaySystem, in a thread that is not running now

vars == <<csv, pc, heap, stations, lines, query, start, target, visited,
          current_path, all_paths, path_signatures, stack, result, suspended>>

graph == <<csv, heap, stations, lines>>
search == <<visited, current_path, all_paths, path_signatures, stack>>

----------------------------------------------------------------------------
(* Bounds and the input alphabet *)

MaxStops == 2

LineNames == <<"A", "B", "C">>
StationNames == <<"X", "Y">>

None == 0
NoQuery == <<>>
EmptyMap == <<>>

Range(s) == {s[i] : i \in DOMAIN s}
Max(S) == IF S = {} THEN 0 ELSE CHOOSE x \in S : \A y \in S : y <= x
Min2(a, b) == IF a <= b THEN a ELSE b
Last(s) == s[Len(s)]
Front(s) == SubSeq(s, 1, Len(s) - 1)

Row(i, l, n, t) == [id |-> i, line |-> l, name |-> n, transfer_ids |-> t]

\* The network of the spec's scenarios: line A = 1 X, 2 Y, 3 Z; line B = 4 Y,
\* 5 W; transfers 2 <-> 4.
ScenarioCsv ==
    << Row(1, "A", "X", <<>>), Row(2, "A", "Y", <<4>>), Row(3, "A", "Z", <<>>),
       Row(4, "B", "Y", <<2>>), Row(5, "B", "W", <<>>) >>

\* Further input files, each larger than the enumerated ones or with a longer
\* transfer list than they have.
\*  ChainCsv: three lines in a chain, with an indirect transfer (A -> B) before
\*  the direct one (B -> C), and one further stop on each side.
ChainCsv ==
    << Row(1, "A", "X", <<>>), Row(2, "A", "Y", <<3>>),
       Row(3, "B", "X", <<2>>), Row(4, "B", "Y", <<5>>),
       Row(5, "C", "X", <<4>>), Row(6, "C", "Y", <<>>) >>
\*  HubCsv: a stop whose transfer list names the same target twice and a stop
\*  with two different direct transfers.
HubCsv ==
    << Row(1, "A", "X", <<3, 3>>), Row(2, "A", "Y", <<3, 4>>),
       Row(3, "B", "X", <<1>>), Row(4, "B", "Y", <<2>>), Row(5, "B", "Z", <<>>) >>
\*  LoopCsv: a transfer to the next stop of the same line, so that one stop
\*  sequence is found twice, once with a transfer hop and once without.
LoopCsv ==
    << Row(1, "A", "X", <<2, 4>>), Row(2, "A", "Y", <<3>>),
       Row(3, "B", "X", <<2>>), Row(4, "C", "X", <<3, 1>>) >>

\*  DanglingCsv: transfer ids 8 and 9 that no row carries, one on a stop of
\*  line B and one on a stop of line A, and a route from 1 to line B through
\*  line C that is found before stop 2 is entered.
DanglingCsv ==
    << Row(1, "A", "X", <<5>>), Row(2, "A", "Y", <<9>>),
       Row(3, "B", "X", <<8>>), Row(4, "B", "Y", <<>>), Row(5, "C", "X", <<3>>) >>
\*  RepeatCsv: id 2 on two rows, of different lines.
RepeatCsv ==
    << Row(1, "A", "X", <<>>), Row(2, "A", "Y", <<3>>),
       Row(3, "B", "X", <<2>>), Row(2, "B", "Y", <<>>) >>

\*  ForkCsv: a stop of line A with an indirect transfer, a prev and a next, each
\*  of which leads on to line C.
ForkCsv ==
    << Row(1, "A", "X", <<5>>), Row(2, "A", "Y", <<4>>), Row(3, "A", "Z", <<5>>),
       Row(4, "B", "X", <<5>>), Row(5, "C", "X", <<>>) >>

SeedFiles ==
    {ScenarioCsv, ChainCsv, HubCsv, LoopCsv, DanglingCsv, RepeatCsv, ForkCsv}

\* The rows that may be appended to a file under construction.  Ids and line
\* names are introduced in first-use order (any other file is a renaming of one
\* of these); an id may repeat an earlier one, and a transfer id may name an
\* id no row carries.
NextIds(rows) == 1 .. Min2(MaxStops, Max({rows[k].id : k \in DOMAIN rows}) + 1)
NextLines(rows) ==
    {LineNames[j] : j \in 1 .. Min2(Len(LineNames),
                                   Cardinality({rows[k].line : k \in DOMAIN rows}) + 1)}
TransferLists == {<<>>} \cup {<<t>> : t \in 1 .. MaxStops}
NextRows(rows) ==
    {Row(i, l, n, t) : i \in NextIds(rows), l \in NextLines(rows),
                       n \in Range(StationNames), t \in TransferLists}

----------------------------------------------------------------------------
(* load_from_csv *)

\* Lines 64-78: one Station per row; the row's id is (re)bound in stations and
\* the Station is appended to its line's list.
RECURSIVE ReadRows(_, _, _, _)
ReadRows(rows, k, st, ln) ==
    IF k > Len(rows) THEN [stations |-> st, lines |-> ln]
    ELSE LET row == rows[k]
             st2 == [i \in DOMAIN st \cup {row.id} |->
                        IF i = row.id THEN k ELSE st[i]]
             ln2 == [l \in DOMAIN ln \cup {row.line} |->
                        IF l = row.line
                        THEN (IF l \in DOMAIN ln THEN Append(ln[l], k) ELSE <<k>>)
                        ELSE ln[l]]
         IN  ReadRows(rows, k + 1, st2, ln2)

\* The position of Station k in its line's list.
IndexIn(line_stations, k) == CHOOSE i \in DOMAIN line_stations : line_stations[i] = k

\* Lines 81-88: prev and next of every Station, from its line's list.
LinkStations(rows, ln) ==
    [k \in DOMAIN rows |->
        LET line_stations == ln[rows[k].line]
            i == IndexIn(line_stations, k)
        IN  [id |-> rows[k].id, line |-> rows[k].line, name |-> rows[k].name,
             transfer_ids |-> rows[k].transfer_ids,
             prev |-> IF i > 1 THEN line_stations[i - 1] ELSE None,
             next |-> IF i < Len(line_stations) THEN line_stations[i + 1] ELSE None]]

load_from_csv(rows) ==
    LET read == ReadRows(rows, 1, EmptyMap, EmptyMap)
    IN  [stations |-> read.stations, lines |-> read.lines,
         heap |-> LinkStations(rows, read.lines)]

----------------------------------------------------------------------------
(* The state before the file is read *)

\* The locals of a find_route call that has not been made yet.
NotCalled ==
    [pc |-> "loaded", query |-> NoQuery, start |-> None, target |-> None,
     visited |-> {}, current_path |-> <<>>, all_paths |-> <<>>,
     path_signatures |-> {}, stack |-> <<>>, result |-> <<>>]

Init ==
    /\ csv \in {<<>>} \cup SeedFiles
    /\ pc = "file"
    /\ heap = <<>>
    /\ stations = EmptyMap
    /\ lines = EmptyMap
    /\ query = NoQuery
    /\ start = None
    /\ target = None
    /\ visited = {}
    /\ current_path = <<>>
    /\ all_paths = <<>>
    /\ path_signatures = {}
    /\ stack = <<>>
    /\ result = <<>>
    /\ suspended = NotCalled

\* One more data row in the input file.
WriteRow ==
    /\ pc = "file"
    /\ Len(csv) < MaxStops
    /\ \E row \in NextRows(csv) : csv' = Append(csv, row)
    /\ UNCHANGED <<pc, heap, stations, lines, query, start, target, result>>
    /\ UNCHANGED search
    /\ UNCHANGED suspended

\* main, line 196: subway.load_from_csv(...)
LoadFromCsv ==
    /\ pc = "file"
    /\ LET g == load_from_csv(csv)
       IN  /\ heap' = g.heap
           /\ stations' = g.stations
           /\ lines' = g.lines
    /\ pc' = "loaded"
    /\ UNCHANGED <<csv, query, start, target, result>>
    /\ UNCHANGED search
    /\ UNCHANGED suspended

----------------------------------------------------------------------------
(* find_route: lookup of the two stops *)

Query(sl, sn, el, en) ==
    [start_line |-> sl, start_station |-> sn, end_line |-> el, end_station |-> en]

\* The line and stop names a caller may pass: every line name of the alphabet
\* (those the file does not use are unknown lines) and every stop name of the
\* alphabet or of the file.
QueryLines == Range(LineNames)
QueryNames == Range(StationNames) \cup {csv[k].name : k \in DOMAIN csv}
Queries ==
    {Query(sl, sn, el, en) : sl \in QueryLines, sn \in QueryNames,
                             el \in QueryLines, en \in QueryNames}

\* next((s for s in line_stations if s.name == name), None)
FirstNamed(line_stations, name) ==
    LET hits == {i \in DOMAIN line_stations : heap[line_stations[i]].name = name}
    IN  IF hits = {} THEN None
        ELSE line_stations[CHOOSE i \in hits : \A j \in hits : i <= j]

\* self.lines[line] raises KeyError for a line name that is no key of lines.
KeyErrorInLookup(q) ==
    \/ q.start_line \notin DOMAIN lines
    \/ q.end_line \notin DOMAIN lines

StartOf(q) == FirstNamed(lines[q.start_line], q.start_station)
EndOf(q) == FirstNamed(lines[q.end_line], q.end_station)

\* The flag passed to dfs is lost.
FrameFlagLost(current, is_transfer) ==
    [current |-> current, is_transfer |-> FALSE, at |-> "enter",
     transfers |-> <<>>, sequential |-> <<>>]

Frame(current, is_transfer) ==
    [current |-> current, is_transfer |-> is_transfer, at |-> "enter",
     transfers |-> <<>>, sequential |-> <<>>]

\* Lines 101-102 raising KeyError: nothing is returned.
FindRouteKeyError ==
    /\ pc = "loaded"
    /\ \E q \in Queries :
        /\ KeyErrorInLookup(q)
        /\ query' = q
    /\ pc' = "raised"
    /\ UNCHANGED <<start, target, result>>
    /\ UNCHANGED graph
    /\ UNCHANGED suspended
    /\ UNCHANGED search

\* Lines 101-105: start or end is None, return [].
FindRouteUnresolved ==
    /\ pc = "loaded"
    /\ \E q \in Queries :
        /\ ~KeyErrorInLookup(q)
        /\ StartOf(q) = None \/ EndOf(q) = None
        /\ query' = q
        /\ start' = StartOf(q)
        /\ target' = EndOf(q)
    /\ result' = <<>>
    /\ pc' = "returned"
    /\ UNCHANGED graph
    /\ UNCHANGED suspended
    /\ UNCHANGED search

\* Lines 101-114 and the call of line 191: dfs(start, end).
FindRouteSearch ==
    /\ pc = "loaded"
    /\ \E q \in Queries :
        /\ ~KeyErrorInLookup(q)
        /\ StartOf(q) # None /\ EndOf(q) # None
        /\ query' = q
        /\ start' = StartOf(q)
        /\ target' = EndOf(q)
        /\ stack' = <<Frame(StartOf(q), FALSE)>>
    /\ visited' = {}
    /\ current_path' = <<>>
    /\ all_paths' = <<>>
    /\ path_signatures' = {}
    /\ pc' = "searching"
    /\ UNCHANGED result
    /\ UNCHANGED graph
    /\ UNCHANGED suspended

----------------------------------------------------------------------------
(* get_path_signature *)

\* An id is dropped as soon as it repeats the one before it.
RECURSIVE ProcessIdsNoRepeat(_, _)
ProcessIdsNoRepeat(ids, processed_ids) ==
    IF ids = <<>> THEN processed_ids
    ELSE ProcessIdsNoRepeat(Tail(ids),
             IF processed_ids = <<>> \/ Head(ids) # Last(processed_ids)
             THEN Append(processed_ids, Head(ids))
             ELSE processed_ids)

\* Lines 125-132: the ids kept by the loop.
RECURSIVE ProcessIds(_, _)
ProcessIds(ids, processed_ids) ==
    IF ids = <<>> THEN processed_ids
    ELSE LET id == Head(ids)
             n == Len(processed_ids)
         IN  ProcessIds(Tail(ids),
                        IF \/ n < 2
                           \/ id # processed_ids[n]
                           \/ id # processed_ids[n - 1]
                        THEN Append(processed_ids, id)
                        ELSE processed_ids)

\* Line 133: ','.join(str(id) for id in processed_ids)
RECURSIVE Join(_)
Join(ids) ==
    IF ids = <<>> THEN ""
    ELSE IF Len(ids) = 1 THEN ToString(ids[1])
    ELSE ToString(ids[1]) \o "," \o Join(Tail(ids))

PathIds(path) == [i \in DOMAIN path |-> heap[path[i][1]].id]

\* A signature that tells a transfer hop from a sequential move.
get_path_signature_with_flags(path) ==
    Join([i \in DOMAIN path |->
             2 * heap[path[i][1]].id + (IF path[i][2] THEN 1 ELSE 0)])

\* Lines 116-133
get_path_signature(path) == Join(ProcessIds(PathIds(path), <<>>))

----------------------------------------------------------------------------
(* dfs: the tests and lists it computes *)

Top == stack[Len(stack)]
Pop(stk) == SubSeq(stk, 1, Len(stk) - 1)
SetTop(stk, f) == [stk EXCEPT ![Len(stk)] = f]

\* Line 143: current.id in visited
AlreadyVisited(current) == heap[current].id \in visited

\* The names compared in place of the ids.
AtTargetByName(current) == heap[current].name = heap[target].name

\* Line 149: current.id == target.id
AtTarget(current) == heap[current].id = heap[target].id

\* The line test always failing.
OnTargetLineNever(current) == FALSE

\* Line 156: current.line == target.line
OnTargetLine(current) == heap[current].line = heap[target].line

\* visited.add left out.
VisitedAddForgotten(current) == visited

\* Line 146: visited.add(current.id)
VisitedAdd(current) == visited \cup {heap[current].id}

\* Line 147: current_path.append((current, is_transfer))
PathAppend(current, is_transfer) == Append(current_path, <<current, is_transfer>>)

\* The pop of line 187 left out.
PathPopForgotten == current_path

\* Line 187: current_path.pop()
PathPop == Front(current_path)

\* visited.clear() in place of visited.remove(current.id).
VisitedRemoveAll(current) == {}

\* Line 188: visited.remove(current.id)
VisitedRemove(current) == visited \ {heap[current].id}

\* The signature test left out.
IsNewSignatureAlways(path_sig) == TRUE

\* Line 151: path_sig not in path_signatures
IsNewSignature(path_sig) == path_sig \notin path_signatures

\* Only current.next is tried.
SequentialMovesNextOnly(current) == <<heap[current].next>>

\* next tried before prev.
SequentialMovesNextFirst(current) == <<heap[current].next, heap[current].prev>>

\* Lines 157 and 183: [current.prev, current.next]
SequentialMoves(current) == <<heap[current].prev, heap[current].next>>

\* Lines 158 and 184: next_station and next_station.id not in visited
MayMoveTo(next_station) ==
    next_station # None /\ heap[next_station].id \notin visited

\* self.stations.get(transfer_id), a missing station skipped.
UnknownTransferSkipped(current) == FALSE

\* Line 166: self.stations[transfer_id] raises KeyError for an id that is no
\* key of stations.
UnknownTransfer(current) ==
    \E i \in DOMAIN heap[current].transfer_ids :
        heap[current].transfer_ids[i] \notin DOMAIN stations

\* Line 166 for every transfer id, in order; None stands for the lookup that
\* raises.
TransferStations(current) ==
    [i \in DOMAIN heap[current].transfer_ids |->
        IF heap[current].transfer_ids[i] \in DOMAIN stations
        THEN stations[heap[current].transfer_ids[i]]
        ELSE None]

\* No transfer station is taken to be on the target's line.
TargetLineTransfersMissed(current) == <<>>

\* Lines 162-171: the transfer stations not in visited, by line.
TargetLineTransfers(current) ==
    SelectSeq(TransferStations(current),
              LAMBDA t : /\ t # None
                         /\ heap[t].id \notin visited
                         /\ heap[t].line = heap[target].line)

\* The transfers to other lines left out.
OtherTransfersDropped(current) == <<>>

OtherTransfers(current) ==
    SelectSeq(TransferStations(current),
              LAMBDA t : /\ t # None
                         /\ heap[t].id \notin visited
                         /\ heap[t].line # heap[target].line)

----------------------------------------------------------------------------
(* dfs: its steps.  Top is the innermost active call. *)

Searching == pc = "searching" /\ stack # <<>>

\* Lines 143-147: return at once from a stop that is already on the path;
\* otherwise add it to visited and to current_path.
DfsEnter ==
    /\ Searching
    /\ Top.at = "enter"
    /\ IF AlreadyVisited(Top.current)
       THEN /\ stack' = Pop(stack)
            /\ UNCHANGED <<visited, current_path>>
       ELSE /\ visited' = VisitedAdd(Top.current)
            /\ current_path' = PathAppend(Top.current, Top.is_transfer)
            /\ stack' = SetTop(stack, [Top EXCEPT !.at = "test"])
    /\ UNCHANGED <<pc, query, start, target, result>>
    /\ UNCHANGED <<all_paths, path_signatures>>
    /\ UNCHANGED graph
    /\ UNCHANGED suspended

\* The path is kept and its signature is not added to path_signatures.
DfsTargetSignatureNotAdded ==
    /\ Searching
    /\ Top.at = "test"
    /\ AtTarget(Top.current)
    /\ IF IsNewSignature(get_path_signature(current_path))
       THEN all_paths' = Append(all_paths, current_path)
       ELSE UNCHANGED all_paths
    /\ stack' = SetTop(stack, [Top EXCEPT !.at = "exit"])
    /\ UNCHANGED <<pc, query, start, target, result>>
    /\ UNCHANGED <<visited, current_path, path_signatures>>
    /\ UNCHANGED graph
    /\ UNCHANGED suspended

\* Lines 149-153: at the target the path is kept if its signature is new.
DfsTarget ==
    /\ Searching
    /\ Top.at = "test"
    /\ AtTarget(Top.current)
    /\ LET path_sig == get_path_signature(current_path)
       IN  IF IsNewSignature(path_sig)
           THEN /\ path_signatures' = path_signatures \cup {path_sig}
                /\ all_paths' = Append(all_paths, current_path)
           ELSE UNCHANGED <<path_signatures, all_paths>>
    /\ stack' = SetTop(stack, [Top EXCEPT !.at = "exit"])
    /\ UNCHANGED <<pc, query, start, target, result>>
    /\ UNCHANGED <<visited, current_path>>
    /\ UNCHANGED graph
    /\ UNCHANGED suspended

\* Lines 156-157: on the target's line only prev and next are candidates.
DfsOnTargetLine ==
    /\ Searching
    /\ Top.at = "test"
    /\ ~AtTarget(Top.current)
    /\ OnTargetLine(Top.current)
    /\ stack' = SetTop(stack, [Top EXCEPT !.at = "loop",
                                          !.sequential = SequentialMoves(Top.current)])
    /\ UNCHANGED <<pc, query, start, target, result>>
    /\ UNCHANGED <<visited, current_path, all_paths, path_signatures>>
    /\ UNCHANGED graph
    /\ UNCHANGED suspended

\* Lines 160-174: off the target's line the transfer stations are sorted into
\* those on the target's line and the others; with a transfer onto the
\* target's line nothing else is a candidate.
DfsOffTargetLine ==
    /\ Searching
    /\ Top.at = "test"
    /\ ~AtTarget(Top.current)
    /\ ~OnTargetLine(Top.current)
    /\ ~UnknownTransfer(Top.current)
    /\ stack' = SetTop(stack,
            IF TargetLineTransfers(Top.current) # <<>>
            THEN [Top EXCEPT !.at = "loop",
                             !.transfers = TargetLineTransfers(Top.current)]
            ELSE [Top EXCEPT !.at = "loop",
                             !.transfers = OtherTransfers(Top.current),
                             !.sequential = SequentialMoves(Top.current)])
    /\ UNCHANGED <<pc, query, start, target, result>>
    /\ UNCHANGED <<visited, current_path, all_paths, path_signatures>>
    /\ UNCHANGED graph
    /\ UNCHANGED suspended

\* Lines 165-166: self.stations[transfer_id] raises KeyError, which leaves
\* every active dfs call and find_route: nothing is returned.  The locals are
\* left as they were when it was raised.
DfsUnknownStop ==
    /\ Searching
    /\ Top.at = "test"
    /\ ~AtTarget(Top.current)
    /\ ~OnTargetLine(Top.current)
    /\ UnknownTransfer(Top.current)
    /\ pc' = "raised"
    /\ UNCHANGED <<query, start, target, result>>
    /\ UNCHANGED search
    /\ UNCHANGED graph
    /\ UNCHANGED suspended

\* Lines 175-176 and 179-180: dfs(transfer_station, target, True)
DfsCallTransfer ==
    /\ Searching
    /\ Top.at = "loop"
    /\ Top.transfers # <<>>
    /\ stack' = Append(SetTop(stack, [Top EXCEPT !.transfers = Tail(Top.transfers)]),
                       Frame(Head(Top.transfers), TRUE))
    /\ UNCHANGED <<pc, query, start, target, result>>
    /\ UNCHANGED <<visited, current_path, all_paths, path_signatures>>
    /\ UNCHANGED graph
    /\ UNCHANGED suspended

\* Lines 157-159 and 183-185: one turn of the loop over [prev, next];
\* dfs(next_station, target, False) if the stop exists and is not visited.
DfsCallSequential ==
    /\ Searching
    /\ Top.at = "loop"
    /\ Top.transfers = <<>>
    /\ Top.sequential # <<>>
    /\ LET next_station == Head(Top.sequential)
           rest == SetTop(stack, [Top EXCEPT !.sequential = Tail(Top.sequential)])
       IN  stack' = IF MayMoveTo(next_station)
                    THEN Append(rest, Frame(next_station, FALSE))
                    ELSE rest
    /\ UNCHANGED <<pc, query, start, target, result>>
    /\ UNCHANGED <<visited, current_path, all_paths, path_signatures>>
    /\ UNCHANGED graph
    /\ UNCHANGED suspended

\* Lines 187-188: current_path.pop(); visited.remove(current.id); return.
DfsExit ==
    /\ Searching
    /\ \/ Top.at = "exit"
       \/ Top.at = "loop" /\ Top.transfers = <<>> /\ Top.sequential = <<>>
    /\ current_path' = PathPop
    /\ visited' = VisitedRemove(Top.current)
    /\ stack' = Pop(stack)
    /\ UNCHANGED <<pc, query, start, target, result>>
    /\ UNCHANGED <<all_paths, path_signatures>>
    /\ UNCHANGED graph
    /\ UNCHANGED suspended

\* Line 192: return all_paths
FindRouteReturn ==
    /\ pc = "searching"
    /\ stack = <<>>
    /\ result' = all_paths
    /\ pc' = "returned"
    /\ UNCHANGED <<query, start, target>>
    /\ UNCHANGED search
    /\ UNCHANGED graph
    /\ UNCHANGED suspended

\* main, lines 203 and 262-264: the loop takes the next query, after a result
\* or after an exception; find_route's locals are gone.
NextQuery ==
    /\ pc \in {"returned", "raised"}
    /\ pc' = "loaded"
    /\ query' = NoQuery
    /\ start' = None
    /\ target' = None
    /\ visited' = {}
    /\ current_path' = <<>>
    /\ all_paths' = <<>>
    /\ path_signatures' = {}
    /\ stack' = <<>>
    /\ result' = <<>>
    /\ UNCHANGED graph
    /\ UNCHANGED suspended

SearchStep ==
    \/ DfsEnter
    \/ DfsTarget
    \/ DfsOnTargetLine
    \/ DfsOffTargetLine
    \/ DfsUnknownStop
    \/ DfsCallTransfer
    \/ DfsCallSequential
    \/ DfsExit
    \/ FindRouteReturn

Next ==
    \/ WriteRow
    \/ LoadFromCsv
    \/ FindRouteKeyError
    \/ FindRouteUnresolved
    \/ FindRouteSearch
    \/ DfsEnter
    \/ DfsTarget
    \/ DfsOnTargetLine
    \/ DfsOffTargetLine
    \/ DfsUnknownStop
    \/ DfsCallTransfer
    \/ DfsCallSequential
    \/ DfsExit
    \/ FindRouteReturn
    \/ NextQuery

Spec == Init /\ [][Next]_vars

\* find_route runs to its end once called: nothing suspends a dfs step.
FairSpec == Spec /\ WF_vars(SearchStep)

----------------------------------------------------------------------------
(* get_path_signature on its own *)

\* get_path_signature reads nothing but the ids of the path it is given, so
\* it is applied here to any list of (Station, bool) over Stations with the
\* ids 1 .. MaxSigId, lists with repeated Stations included.  current_path
\* holds the argument, path_signatures collects the values returned, and
\* all_paths keeps the earlier argument.
MaxSigLen == 5
MaxSigId == 2

SigCsv == [k \in 1 .. MaxSigId |-> Row(k, "A", "X", <<>>)]

IdSeqs == UNION {[1 .. n -> 1 .. MaxSigId] : n \in 0 .. MaxSigLen}

\* A path over the Stations of SigCsv with the given ids (Station k has id k).
PathOfIds(ids, is_transfer) ==
    [i \in DOMAIN ids |-> <<ids[i], i > 1 /\ is_transfer>>]

\* The ids a signature names: the reading of ','.join(str(id) ...).
SignatureIds(sig) == CHOOSE ids \in IdSeqs : Join(ids) = sig

SigInit ==
    /\ csv = SigCsv
    /\ pc = "signature"
    /\ heap = load_from_csv(SigCsv).heap
    /\ stations = load_from_csv(SigCsv).stations
    /\ lines = load_from_csv(SigCsv).lines
    /\ query = NoQuery
    /\ start = None
    /\ target = None
    /\ visited = {}
    /\ \E ids \in IdSeqs, is_transfer \in BOOLEAN :
           current_path = PathOfIds(ids, is_transfer)
    /\ all_paths = <<>>
    /\ path_signatures = {}
    /\ stack = <<>>
    /\ result = <<>>
    /\ suspended = NotCalled

\* Line 150: get_path_signature(current_path)
SigApply ==
    /\ pc = "signature"
    /\ path_signatures' = {get_path_signature(current_path)}
    /\ pc' = "signed"
    /\ UNCHANGED <<query, start, target, result>>
    /\ UNCHANGED <<visited, current_path, all_paths, stack>>
    /\ UNCHANGED graph
    /\ UNCHANGED suspended

\* get_path_signature applied once more, to a path of the ids that its first
\* value names.
SigReapply ==
    /\ pc = "signed"
    /\ \E sig \in path_signatures :
           /\ current_path' = PathOfIds(SignatureIds(sig), FALSE)
           /\ path_signatures' =
                  path_signatures \cup {get_path_signature(current_path')}
    /\ all_paths' = <<current_path>>
    /\ pc' = "signed again"
    /\ UNCHANGED <<query, start, target, result>>
    /\ UNCHANGED <<visited, stack>>
    /\ UNCHANGED graph
    /\ UNCHANGED suspended

SigNext == SigApply \/ SigReapply

SigSpec == SigInit /\ [][SigNext]_vars

----------------------------------------------------------------------------
(* Two find_route calls on one SubwaySystem *)

\* Every call of find_route binds its own start, end, visited, current_path,
\* all_paths and path_signatures (lines 101-114), and its dfs and
\* get_path_signature close over these.  Two calls in two threads take their
\* steps in any order; the variables hold the locals of the call whose thread
\* runs and `suspended` those of the other.
Locals ==
    [pc |-> pc, query |-> query, start |-> start, target |-> target,
     visited |-> visited, current_path |-> current_path,
     all_paths |-> all_paths, path_signatures |-> path_signatures,
     stack |-> stack, result |-> result]

\* The two calls work on one visited set, as they would if it were a field of
\* the SubwaySystem.
SwitchSharingVisited ==
    /\ pc # "file"
    /\ suspended.pc \notin {"returned", "raised"}
    /\ suspended' = Locals
    /\ pc' = suspended.pc
    /\ query' = suspended.query
    /\ start' = suspended.start
    /\ target' = suspended.target
    /\ visited' = visited
    /\ current_path' = suspended.current_path
    /\ all_paths' = suspended.all_paths
    /\ path_signatures' = suspended.path_signatures
    /\ stack' = suspended.stack
    /\ result' = suspended.result
    /\ UNCHANGED graph

\* The running thread is suspended and the other, if its call has not ended,
\* goes on where it stood.
Switch ==
    /\ pc # "file"
    /\ suspended.pc \notin {"returned", "raised"}
    /\ suspended' = Locals
    /\ pc' = suspended.pc
    /\ query' = suspended.query
    /\ start' = suspended.start
    /\ target' = suspended.target
    /\ visited' = suspended.visited
    /\ current_path' = suspended.current_path
    /\ all_paths' = suspended.all_paths
    /\ path_signatures' = suspended.path_signatures
    /\ stack' = suspended.stack
    /\ result' = suspended.result
    /\ UNCHANGED graph

\* The files on which two calls are interleaved.
ConcFiles == SeedFiles

ConcInit == Init /\ csv \in ConcFiles

ConcNext ==
    \/ LoadFromCsv
    \/ FindRouteKeyError
    \/ FindRouteUnresolved
    \/ FindRouteSearch
    \/ DfsEnter
    \/ DfsTarget
    \/ DfsOnTargetLine
    \/ DfsOffTargetLine
    \/ DfsUnknownStop
    \/ DfsCallTransfer
    \/ DfsCallSequential
    \/ DfsExit
    \/ FindRouteReturn
    \/ Switch

ConcSpec == ConcInit /\ [][ConcNext]_vars

----------------------------------------------------------------------------
(* find_route as a function of the graph and its arguments *)

\* What one call of find_route does when nothing else runs: dfs as a function
\* from the locals before the call to the locals after it, `raised` telling
\* that a KeyError has left the call.
RECURSIVE DfsAlone(_, _, _, _)
RECURSIVE DfsEach(_, _, _, _)

\* Lines 174-185: the loops over transfer stations (is_transfer true, called
\* as they are) and over [prev, next] (called if not None and not visited).
DfsEach(moves, is_transfer, t, loc) ==
    IF moves = <<>> \/ loc.raised THEN loc
    ELSE LET m == Head(moves)
             called == is_transfer \/ (m # None /\ heap[m].id \notin loc.visited)
         IN  DfsEach(Tail(moves), is_transfer, t,
                     IF called THEN DfsAlone(m, is_transfer, t, loc) ELSE loc)

\* Lines 135-188
DfsAlone(current, is_transfer, t, loc) ==
    IF heap[current].id \in loc.visited THEN loc
    ELSE
    LET entered == [loc EXCEPT !.visited = @ \cup {heap[current].id},
                               !.current_path = Append(@, <<current, is_transfer>>)]
        path_sig == get_path_signature(entered.current_path)
        unvisited(line_test(_)) ==
            SelectSeq(TransferStations(current),
                      LAMBDA x : /\ x # None
                                 /\ heap[x].id \notin entered.visited
                                 /\ line_test(heap[x].line))
        target_line_transfers == unvisited(LAMBDA l : l = heap[t].line)
        other_transfers == unvisited(LAMBDA l : l # heap[t].line)
        explored ==
            IF heap[current].id = heap[t].id
            THEN IF path_sig \notin entered.path_signatures
                 THEN [entered EXCEPT !.path_signatures = @ \cup {path_sig},
                                      !.all_paths = Append(@, entered.current_path)]
                 ELSE entered
            ELSE IF heap[current].line = heap[t].line
            THEN DfsEach(SequentialMoves(current), FALSE, t, entered)
            ELSE IF UnknownTransfer(current)
            THEN [entered EXCEPT !.raised = TRUE]
            ELSE IF target_line_transfers # <<>>
            THEN DfsEach(target_line_transfers, TRUE, t, entered)
            ELSE DfsEach(SequentialMoves(current), FALSE, t,
                         DfsEach(other_transfers, TRUE, t, entered))
    IN  IF explored.raised THEN explored
        ELSE [explored EXCEPT !.current_path = Front(@),
                              !.visited = @ \ {heap[current].id}]

\* Lines 90-192: how the call ends, and what it returns if it returns.
FindRouteAlone(q) ==
    IF KeyErrorInLookup(q) THEN [pc |-> "raised", result |-> <<>>]
    ELSE IF StartOf(q) = None \/ EndOf(q) = None
    THEN [pc |-> "returned", result |-> <<>>]
    ELSE LET loc == DfsAlone(StartOf(q), FALSE, EndOf(q),
                             [visited |-> {}, current_path |-> <<>>,
                              all_paths |-> <<>>, path_signatures |-> {},
                              raised |-> FALSE])
         IN  IF loc.raised THEN [pc |-> "raised", result |-> <<>>]
             ELSE [pc |-> "returned", result |-> loc.all_paths]

----------------------------------------------------------------------------
(* Vocabulary of the properties *)

HasDuplicateIds(rows) ==
    \E j, k \in DOMAIN rows : j < k /\ rows[j].id = rows[k].id

UniqueIds == ~HasDuplicateIds(csv)

\* The lookup contract: (line, name) resolves when the line is a line of the
\* graph and a stop on it has exactly that name.
Resolves(line, name) ==
    /\ line \in DOMAIN lines
    /\ \E i \in DOMAIN lines[line] : heap[lines[line][i]].name = name

Unresolved(q) ==
    \/ ~Resolves(q.start_line, q.start_station)
    \/ ~Resolves(q.end_line, q.end_station)

Called == query # NoQuery
Finished == pc \in {"returned", "raised"}

IdsOf(path) == [i \in DOMAIN path |-> heap[path[i][1]].id]
Distinct(s) == \A i, j \in DOMAIN s : i # j => s[i] # s[j]

----------------------------------------------------------------------------
(* C1 *)

\* C1: a file in which some id occurs twice is never loaded: construction
\* fails, no graph is produced, and no later row replaces an earlier one in
\* the id-to-stop map.
C1_DuplicateIdRejected ==
    HasDuplicateIds(csv) =>
        /\ pc = "file"
        /\ heap = <<>>
        /\ stations = EmptyMap
        /\ lines = EmptyMap

----------------------------------------------------------------------------
(* C2 *)

\* C2: a find_route call whose start or end does not resolve (unknown line,
\* or no stop of that name on the line) returns the empty sequence and raises
\* no error.
C2_UnresolvedReturnsEmpty ==
    (Called /\ Unresolved(query)) => (pc = "returned" /\ result = <<>>)

----------------------------------------------------------------------------
(* C3 *)

\* C3: at every point of a search visited is exactly the set of ids on
\* current_path and no id occurs twice on current_path; every accepted and
\* every returned path has pairwise distinct ids.
C3_SimplePaths ==
    /\ visited = Range(IdsOf(current_path))
    /\ Distinct(IdsOf(current_path))
    /\ \A i \in DOMAIN all_paths : Distinct(IdsOf(all_paths[i]))
    /\ \A i \in DOMAIN result : Distinct(IdsOf(result[i]))

\* A search three stops deep refuses a sequential move to a stop that is on
\* the path.
C3_Witness ==
    /\ Searching
    /\ Top.at = "loop"
    /\ Top.transfers = <<>>
    /\ Top.sequential # <<>>
    /\ Head(Top.sequential) # None
    /\ heap[Head(Top.sequential)].id \in visited
    /\ Len(current_path) >= 3

----------------------------------------------------------------------------
(* C4 *)

\* C4: every returned path is non-empty, starts at the resolved start stop
\* with flag false, ends at the resolved end stop, and holds the end stop's
\* id nowhere else.
C4_EndpointCorrectness ==
    pc = "returned" =>
        \A i \in DOMAIN result :
            LET path == result[i]
            IN  /\ path # <<>>
                /\ path[1] = <<start, FALSE>>
                /\ Last(path)[1] = target
                /\ \A j \in 1 .. Len(path) - 1 :
                       heap[path[j][1]].id # heap[target].id

----------------------------------------------------------------------------
(* C5 *)

\* The graph's edges out of stop s: its sequential neighbours and the stops
\* its transfer ids name.
SequentialOf(s) == {heap[s].prev, heap[s].next} \ {None}
TransfersOf(s) ==
    {stations[t] : t \in Range(heap[s].transfer_ids) \cap DOMAIN stations}

\* The moves the step-3 rules permit from a stop s that is not the target.
PermittedMoves(s) ==
    LET direct == {t \in TransfersOf(s) : heap[t].line = heap[target].line}
    IN  IF heap[s].line = heap[target].line THEN SequentialOf(s)
        ELSE IF direct # {} THEN direct
        ELSE TransfersOf(s) \cup SequentialOf(s)

\* Every simple path that extends `path` by permitted moves and ends at its
\* first stop with the target's id.
RECURSIVE PermittedPaths(_)
PermittedPaths(path) ==
    IF heap[Last(path)].id = heap[target].id THEN {path}
    ELSE UNION {PermittedPaths(Append(path, n)) :
                   n \in {m \in PermittedMoves(Last(path)) :
                             \A i \in DOMAIN path : heap[m].id # heap[path[i]].id}}

StopIds(stops) == [i \in DOMAIN stops |-> heap[stops[i]].id]

ScenarioQuery == Query("A", "X", "B", "W")
ScenarioPath == << <<1, FALSE>>, <<2, FALSE>>, <<4, TRUE>>, <<5, FALSE>> >>

\* C5: with unique ids, every simple path from start to end made of permitted
\* moves is in the result, as a path with that id sequence; in the scenario
\* network A,X -> B,W returns [(1,false),(2,false),(4,true),(5,false)].
C5_Exhaustive ==
    /\ (pc = "returned" /\ start # None /\ target # None /\ UniqueIds) =>
           \A p \in PermittedPaths(<<start>>) :
               \E i \in DOMAIN result : IdsOf(result[i]) = StopIds(p)
    /\ (pc = "returned" /\ csv = ScenarioCsv /\ query = ScenarioQuery) =>
           \E i \in DOMAIN result : result[i] = ScenarioPath

\* The scenario query has returned its path, and a query with two permitted
\* paths has returned.
C5_Witness ==
    /\ pc = "returned"
    /\ csv = ScenarioCsv
    /\ query = ScenarioQuery
    /\ result = <<ScenarioPath>>

C5_WitnessTwoPaths ==
    /\ pc = "returned"
    /\ UniqueIds
    /\ start # None /\ target # None
    /\ Cardinality(PermittedPaths(<<start>>)) >= 2

----------------------------------------------------------------------------
(* C6 *)

\* The stops of a line from position i to position j, in travel order.
RECURSIVE LineRun(_, _, _)
LineRun(line_stations, i, j) ==
    IF i = j THEN <<line_stations[i]>>
    ELSE <<line_stations[i]>> \o
         LineRun(line_stations, IF i < j THEN i + 1 ELSE i - 1, j)

\* C6: with unique ids and start and end on one line, the result is exactly
\* one path: the contiguous run of the line's stops from start to end, every
\* flag false.
C6_SameLine ==
    (/\ pc = "returned" /\ start # None /\ target # None /\ UniqueIds
     /\ heap[start].line = heap[target].line) =>
        LET line_stations == lines[heap[start].line]
            run == LineRun(line_stations, IndexIn(line_stations, start),
                           IndexIn(line_stations, target))
        IN  result = << [i \in DOMAIN run |-> <<run[i], FALSE>>] >>

\* A same-line query over three stops, against the line's order, has returned.
C6_Witness ==
    /\ pc = "returned"
    /\ start # None /\ target # None
    /\ UniqueIds
    /\ heap[start].line = heap[target].line
    /\ Len(result) = 1
    /\ Len(result[1]) = 3
    /\ IndexIn(lines[heap[start].line], start) > IndexIn(lines[heap[start].line], target)

----------------------------------------------------------------------------
(* C7 *)

AtDuplicateSignature ==
    /\ Searching
    /\ Top.at = "test"
    /\ AtTarget(Top.current)
    /\ get_path_signature(current_path) \in path_signatures

UniqueSignatures(paths) ==
    \A i, j \in DOMAIN paths :
        i # j => get_path_signature(paths[i]) # get_path_signature(paths[j])

\* C7: no two paths of all_paths, or of the result, have the same signature,
\* and a path reaching the target with a signature already in
\* path_signatures is not added.
C7_SignatureUnique ==
    /\ [](UniqueSignatures(all_paths) /\ UniqueSignatures(result))
    /\ [][AtDuplicateSignature =>
            (all_paths' = all_paths /\ path_signatures' = path_signatures)]_vars

\* The target is reached by a path whose signature was accepted before.
C7_Witness == AtDuplicateSignature /\ all_paths # <<>>

----------------------------------------------------------------------------
(* C8 *)

\* The distinct stop ids of the graph.
GraphIds == {heap[k].id : k \in DOMAIN heap}

EntersStop == Searching /\ Top.at = "enter"

\* C8: every search finishes, by returning or by raising; a dfs call either
\* returns at once from a visited stop or adds an id that was not in visited;
\* the active path is never longer than the number of distinct stop ids.
C8_Terminates ==
    /\ (pc = "searching") ~> Finished
    /\ [](Len(current_path) <= Cardinality(GraphIds))
    /\ [][EntersStop =>
            \/ (heap[Top.current].id \in visited
                  /\ stack' = Pop(stack) /\ visited' = visited)
            \/ (heap[Top.current].id \notin visited
                  /\ visited' = visited \cup {heap[Top.current].id}
                  /\ Len(current_path') = Len(current_path) + 1)]_vars

\* The active path holds every stop id of a graph of at least four ids.
C8_Witness ==
    /\ Searching
    /\ Len(current_path) = Cardinality(GraphIds)
    /\ Cardinality(GraphIds) >= 4

----------------------------------------------------------------------------
(* C9 *)

\* Stop s carries a transfer id that no key of stations matches.
HasDanglingTransfer(s) == Range(heap[s].transfer_ids) \ DOMAIN stations # {}

\* The i-th stop of the path is not the target and has a dangling transfer id.
DanglingOnPath(i) ==
    /\ heap[current_path[i][1]].id # heap[target].id
    /\ HasDanglingTransfer(current_path[i][1])

\* The search has gone on past the i-th stop of the path: the stop is not
\* the one whose line-156 test is still to come.
SearchedPast(i) ==
    pc = "searching" /\ ~(i = Len(current_path) /\ stack # <<>> /\ Top.at = "test")

\* C9 as claimed: no search goes on past a stop, other than the target, that
\* has a dangling transfer id, and an aborted search returns nothing.
C9_DanglingAlwaysRaises ==
    /\ \A i \in DOMAIN current_path : DanglingOnPath(i) => ~SearchedPast(i)
    /\ pc = "raised" => result = <<>>

\* C9 as amended: no search goes on past a stop off the target's line, other
\* than the target, that has a dangling transfer id; entering such a stop
\* ends find_route with the error, and nothing is returned, whatever was
\* accepted before.
C9_DanglingOffTargetLineRaises ==
    /\ [](\A i \in DOMAIN current_path :
            (DanglingOnPath(i)
               /\ heap[current_path[i][1]].line # heap[target].line)
                => ~SearchedPast(i))
    /\ [](pc = "raised" => result = <<>>)
    /\ [][(/\ Searching /\ Top.at = "test"
           /\ DanglingOnPath(Len(current_path))
           /\ heap[Top.current].line # heap[target].line)
          => (pc' = "raised" /\ result' = <<>>)]_vars

\* The dangling id is met after a path was accepted: the error discards it.
C9_Witness ==
    /\ pc = "raised"
    /\ stack # <<>>
    /\ HasDanglingTransfer(Top.current)
    /\ heap[Top.current].line # heap[target].line
    /\ all_paths # <<>>
    /\ result = <<>>

----------------------------------------------------------------------------
(* C10 *)

\* The stops some sequence of sequential and transfer edges leads to.
RECURSIVE ReachableFrom(_)
ReachableFrom(S) ==
    LET more == S \cup UNION {SequentialOf(s) \cup TransfersOf(s) : s \in S}
    IN  IF more = S THEN S ELSE ReachableFrom(more)

Resolved == start # None /\ target # None

\* C10 as claimed: with the end stop out of reach of the start stop,
\* find_route returns the empty sequence, without error.
C10_UnreachableReturnsEmpty ==
    (Finished /\ Resolved /\ target \notin ReachableFrom({start})) =>
        (pc = "returned" /\ result = <<>>)

\* C10 as amended: with no stop carrying the end stop's id in reach of the
\* start stop, no path is accepted or returned: find_route returns the empty
\* sequence, or ends with the error of a transfer id that is no key of
\* stations, met at a stop off the target's line.
C10_UnreachableNoPath ==
    (Called /\ Resolved
       /\ \A s \in ReachableFrom({start}) : heap[s].id # heap[target].id) =>
        /\ all_paths = <<>>
        /\ pc = "returned" => result = <<>>
        /\ pc = "raised" =>
              (stack # <<>> /\ HasDanglingTransfer(Top.current)
                 /\ heap[Top.current].line # heap[target].line)

\* A search over at least two stops for a target out of reach has returned.
C10_Witness ==
    /\ pc = "returned"
    /\ Resolved
    /\ \A s \in ReachableFrom({start}) : heap[s].id # heap[target].id
    /\ Cardinality(ReachableFrom({start})) >= 2
    /\ result = <<>>

----------------------------------------------------------------------------
(* C12 *)

\* The paths a search holds: the active one, the accepted ones, the returned
\* ones.
KnownPaths == {current_path} \cup Range(all_paths) \cup Range(result)

StopAt(path, i) == path[i][1]
FlagAt(path, i) == path[i][2]
OnLineOfTarget(s) == heap[s].line = heap[target].line

\* C12: every path of a search is a run of stops off the target's line
\* followed by a run of stops on it, and a stop entered from a stop on the
\* target's line is that stop's prev or next, entered with flag false.
C12_NoTransferOnTargetLine ==
    Resolved =>
        \A path \in KnownPaths :
            /\ \A i, j \in DOMAIN path :
                   (i < j /\ OnLineOfTarget(StopAt(path, i)))
                       => OnLineOfTarget(StopAt(path, j))
            /\ \A i \in DOMAIN path :
                   (i > 1 /\ OnLineOfTarget(StopAt(path, i - 1))) =>
                       /\ StopAt(path, i) \in SequentialOf(StopAt(path, i - 1))
                       /\ FlagAt(path, i) = FALSE

\* The search has moved along the target's line from a stop that it reached
\* by a transfer and that has a transfer to an unvisited stop of another line.
C12_Witness ==
    /\ Searching
    /\ Len(current_path) >= 3
    /\ \E i \in 2 .. Len(current_path) - 1 :
           /\ FlagAt(current_path, i) = TRUE
           /\ OnLineOfTarget(StopAt(current_path, i))
           /\ \E t \in TransfersOf(StopAt(current_path, i)) :
                  ~OnLineOfTarget(t) /\ heap[t].id \notin visited

----------------------------------------------------------------------------
(* C13 *)

\* The ids on the path up to its i-th stop: visited when that stop is expanded.
IdsUpTo(path, i) == {heap[StopAt(path, k)].id : k \in 1 .. i}

\* The transfer targets of the i-th stop that are on the target's line and
\* were not visited when it was expanded.
DirectTargets(path, i) ==
    {t \in TransfersOf(StopAt(path, i)) :
        OnLineOfTarget(t) /\ heap[t].id \notin IdsUpTo(path, i)}

\* The i-th stop of the path is expanded off the target's line with a direct
\* transfer at hand.
HasDirectTransfer(path, i) ==
    /\ heap[StopAt(path, i)].id # heap[target].id
    /\ ~OnLineOfTarget(StopAt(path, i))
    /\ DirectTargets(path, i) # {}

\* C13: a stop off the target's line that has an unvisited transfer target on
\* the target's line is followed, on every path, only by such a target,
\* entered with flag true.
C13_DirectTransferPriority ==
    Resolved =>
        \A path \in KnownPaths :
            \A i \in DOMAIN path :
                (i < Len(path) /\ HasDirectTransfer(path, i)) =>
                    /\ StopAt(path, i + 1) \in DirectTargets(path, i)
                    /\ FlagAt(path, i + 1) = TRUE

\* A direct transfer was taken from a stop that also has an unvisited
\* sequential neighbour.
C13_Witness ==
    /\ Searching
    /\ \E i \in 1 .. Len(current_path) - 1 :
           /\ HasDirectTransfer(current_path, i)
           /\ \E n \in SequentialOf(StopAt(current_path, i)) :
                  heap[n].id \notin visited

----------------------------------------------------------------------------
(* C14 *)

\* C14: on every path a stop entered with flag true has its id among the
\* previous stop's transfer_ids, and a stop entered with flag false is the
\* previous stop's prev or next.
C14_FlagMatchesEdge ==
    \A path \in KnownPaths :
        \A i \in DOMAIN path :
            i > 1 =>
                IF FlagAt(path, i)
                THEN heap[StopAt(path, i)].id
                         \in Range(heap[StopAt(path, i - 1)].transfer_ids)
                ELSE StopAt(path, i) \in SequentialOf(StopAt(path, i - 1))

\* A returned path with a transfer hop and a sequential move.
C14_Witness ==
    /\ pc = "returned"
    /\ \E k \in DOMAIN result :
           /\ \E i \in 2 .. Len(result[k]) : FlagAt(result[k], i)
           /\ \E i \in 2 .. Len(result[k]) : ~FlagAt(result[k], i)

----------------------------------------------------------------------------
(* C15 *)

\* The elements that the dfs calls on the stack have appended: one for every
\* call that has passed lines 146-147, in call order.
EnteredPath(calls) ==
    LET n == IF calls # <<>> /\ Last(calls).at = "enter"
             THEN Len(calls) - 1 ELSE Len(calls)
    IN  [i \in 1 .. n |-> <<calls[i].current, calls[i].is_transfer>>]

\* Which stop a call is at, and whether it has appended it, stays as it is for
\* every call below the innermost one, and for the innermost one once it has
\* appended.
CallersKept ==
    \A i \in DOMAIN stack \cap DOMAIN stack' :
        (i < Len(stack) \/ stack[i].at # "enter") =>
            /\ stack'[i].current = stack[i].current
            /\ stack'[i].is_transfer = stack[i].is_transfer
            /\ (stack'[i].at = "enter") = (stack[i].at = "enter")

\* C15: current_path and visited are at all times what the active dfs calls
\* have appended and added; a call leaves both alone to its callers, entering
\* a call changes neither, and a return leaves what the remaining calls have
\* appended, which is what they held when the call was entered.  After a
\* normal return of find_route both are empty.
C15_BacktrackingRestores ==
    /\ [](pc \in {"searching", "raised"} =>
              /\ current_path = EnteredPath(stack)
              /\ visited = Range(IdsOf(current_path)))
    /\ [][(Searching /\ pc' = "searching") =>
              /\ CallersKept
              /\ Len(stack') > Len(stack) => UNCHANGED <<visited, current_path>>
              /\ Len(stack') < Len(stack) =>
                     /\ current_path' = EnteredPath(stack')
                     /\ visited' = Range(IdsOf(EnteredPath(stack')))]_vars
    /\ [](pc = "returned" => visited = {} /\ current_path = <<>>)

\* find_route has returned paths of three or more stops, and its visited and
\* current_path are empty.
C15_Witness ==
    /\ pc = "returned"
    /\ \E k \in DOMAIN result : Len(result[k]) >= 3
    /\ Len(result) >= 2
    /\ visited = {}
    /\ current_path = <<>>

----------------------------------------------------------------------------
(* C16 *)

\* Two paths share their first k - 1 elements and differ in the k-th.
DivergeAt(p, q, k) ==
    /\ k > 1
    /\ k <= Len(p)
    /\ k <= Len(q)
    /\ p[k] # q[k]
    /\ \A m \in 1 .. k - 1 : p[m] = q[m]

\* The first position of stop t's id in the transfer_ids of stop s.
TransferRank(s, t) ==
    LET at == {i \in DOMAIN heap[s].transfer_ids :
                  heap[s].transfer_ids[i] = heap[t].id}
    IN  CHOOSE i \in at : \A j \in at : i <= j

\* The order in which dfs tries two different continuations of one stop s.
TriedBefore(s, first, then) ==
    CASE first[2] /\ then[2] ->
             TransferRank(s, first[1]) < TransferRank(s, then[1])
      [] first[2] /\ ~then[2] -> TRUE
      [] ~first[2] /\ then[2] -> FALSE
      [] OTHER -> first[1] = heap[s].prev /\ then[1] = heap[s].next

\* C16: of two accepted paths that diverge after a common prefix, the one
\* listed first continues by a transfer hop where the other continues
\* sequentially, by the earlier entry of transfer_ids where both continue by
\* transfer hops, and to prev where both continue sequentially.
C16_ResultOrder ==
    \A paths \in {all_paths, result} :
        \A i, j \in DOMAIN paths :
            i < j =>
                \A k \in DOMAIN paths[i] :
                    DivergeAt(paths[i], paths[j], k) =>
                        TriedBefore(StopAt(paths[i], k - 1),
                                    paths[i][k], paths[j][k])

\* Two returned paths that part at a stop, one by a transfer hop and the
\* other sequentially.
C16_Witness ==
    /\ pc = "returned"
    /\ \E i, j \in DOMAIN result :
           \E k \in DOMAIN result[i] :
               /\ i < j
               /\ DivergeAt(result[i], result[j], k)
               /\ FlagAt(result[i], k)
               /\ ~FlagAt(result[j], k)

\* Two returned paths that part at a stop by two different transfer hops.
C16_WitnessTransfers ==
    /\ pc = "returned"
    /\ \E i, j \in DOMAIN result :
           \E k \in DOMAIN result[i] :
               /\ i < j
               /\ DivergeAt(result[i], result[j], k)
               /\ FlagAt(result[i], k)
               /\ FlagAt(result[j], k)

\* Two returned paths that part at a stop, one to its prev and one to its
\* next.
C16_WitnessSequential ==
    /\ pc = "returned"
    /\ \E i, j \in DOMAIN result :
           \E k \in DOMAIN result[i] :
               /\ i < j
               /\ DivergeAt(result[i], result[j], k)
               /\ ~FlagAt(result[i], k)
               /\ ~FlagAt(result[j], k)

----------------------------------------------------------------------------
(* C17 *)

IsPrefix(s, t) == Len(s) <= Len(t) /\ SubSeq(t, 1, Len(s)) = s

\* C17: while a search runs, all_paths only grows at its end: the entries it
\* has stay as they are and where they are, whatever becomes of current_path;
\* and it has as many entries as path_signatures has signatures.
C17_AppendOnly ==
    /\ [](Len(all_paths) = Cardinality(path_signatures))
    /\ [][pc = "searching" => IsPrefix(all_paths, all_paths')]_vars

\* Two paths are accepted and the search has gone back below the first.
C17_Witness ==
    /\ pc = "searching"
    /\ Len(all_paths) >= 2
    /\ Len(current_path) < Len(all_paths[1])
    /\ current_path # <<>>

----------------------------------------------------------------------------
(* C19 *)

\* dfs stands at the target and is about to compute the path's signature.
ReachesTarget == Searching /\ Top.at = "test" /\ AtTarget(Top.current)

\* The id sequences of a list of paths differ pairwise.
DifferInIds(paths) ==
    \A i, j \in DOMAIN paths : i # j => IdsOf(paths[i]) # IdsOf(paths[j])

\* C19: for every path that reaches the target the run capping drops no id;
\* the path is rejected only if an accepted path has the same id sequence;
\* accepted and returned paths differ pairwise in their id sequences.
C19_CappingNeverFires ==
    /\ ReachesTarget =>
           /\ ProcessIds(PathIds(current_path), <<>>) = IdsOf(current_path)
           /\ ~IsNewSignature(get_path_signature(current_path)) =>
                  \E k \in DOMAIN all_paths :
                      IdsOf(all_paths[k]) = IdsOf(current_path)
    /\ DifferInIds(all_paths)
    /\ DifferInIds(result)

\* A path that reaches the target is rejected: an accepted path has the same
\* ids, with another transfer flag.
C19_Witness ==
    /\ ReachesTarget
    /\ ~IsNewSignature(get_path_signature(current_path))
    /\ \E k \in DOMAIN all_paths :
           /\ IdsOf(all_paths[k]) = IdsOf(current_path)
           /\ all_paths[k] # current_path

----------------------------------------------------------------------------
(* C18 *)

\* The positions of an id sequence that are not the third or a later one of
\* a run of equal ids, and the sequence of the ids at those positions.
KeptPositions(ids) ==
    {i \in DOMAIN ids : ~(i > 2 /\ ids[i] = ids[i - 1] /\ ids[i] = ids[i - 2])}
CappedRuns(ids) ==
    LET kept == KeptPositions(ids)
        nth(k) == CHOOSE i \in kept : Cardinality({j \in kept : j <= i}) = k
    IN  [k \in 1 .. Cardinality(kept) |-> ids[nth(k)]]

NoThreeInARow(ids) ==
    \A i \in DOMAIN ids :
        i > 2 => ~(ids[i] = ids[i - 1] /\ ids[i] = ids[i - 2])

\* C18: the signature of a path names its ids with every run of more than two
\* equal ids cut to two and all else in place; it never names an id three
\* times in a row; and the signature of the ids it names is the same
\* signature again.
C18_SignatureCapsRuns ==
    /\ pc = "signed" =>
           \A sig \in path_signatures :
               /\ sig = Join(CappedRuns(IdsOf(current_path)))
               /\ SignatureIds(sig) = CappedRuns(IdsOf(current_path))
               /\ NoThreeInARow(SignatureIds(sig))
    /\ pc = "signed again" =>
           /\ Cardinality(path_signatures) = 1
           /\ path_signatures = {Join(IdsOf(current_path))}

\* The signature of a path that loses two or more ids, with a run of three
\* equal ids followed by another id, has been computed, and computed again
\* from the ids it names.
C18_Witness ==
    /\ pc = "signed again"
    /\ Len(all_paths[1]) > Len(current_path) + 1
    /\ \E i \in DOMAIN all_paths[1] :
           /\ i > 3
           /\ all_paths[1][i][1] # all_paths[1][i - 1][1]
           /\ all_paths[1][i - 1][1] = all_paths[1][i - 2][1]
           /\ all_paths[1][i - 1][1] = all_paths[1][i - 3][1]

----------------------------------------------------------------------------
(* C11 *)

\* A call has ended as it ends when run alone.
EndsAsAlone(call) ==
    call.pc \in {"returned", "raised"} =>
        /\ call.pc = FindRouteAlone(call.query).pc
        /\ call.result = FindRouteAlone(call.query).result

\* A call that nothing interleaves with ends as FindRouteAlone says.
AloneAgrees == EndsAsAlone(Locals)

\* C11: of two interleaved find_route calls on one graph neither changes the
\* graph, a step of one leaves the other's start, end, visited, current_path,
\* all_paths, path_signatures and result as they are (the other's locals
\* change hands only when the threads are switched, and then unaltered), and
\* each call ends as it ends when run alone.
C11_CallsIsolated ==
    /\ [][pc # "file" => UNCHANGED graph]_vars
    /\ [][suspended' # suspended =>
              /\ suspended' = Locals
              /\ Locals' = suspended]_vars
    /\ [](EndsAsAlone(Locals) /\ EndsAsAlone(suspended))

\* Two different calls stand in the middle of their searches, each with an
\* accepted path and stops on its path, on different visited sets.
C11_Witness ==
    /\ Searching
    /\ suspended.pc = "searching"
    /\ suspended.stack # <<>>
    /\ query # suspended.query
    /\ all_paths # <<>>
    /\ suspended.all_paths # <<>>
    /\ visited # {}
    /\ suspended.visited # {}
    /\ visited # suspended.visited

\* Both calls have returned, one of them two paths.
C11_WitnessReturned ==
    /\ pc = "returned"
    /\ suspended.pc = "returned"
    /\ query # suspended.query
    /\ Len(result) >= 2
    /\ suspended.result # <<>>

====
